---- MODULE Spec2Model ----
(***************************************************************************)
(* Offline-first note pad: the service worker of src/service-worker.js     *)
(* (install / activate / fetch router / three caching strategies) and the  *)
(* note store and reconciler of src/app.js.                                *)
(*                                                                         *)
(* Every `await` of the source is a suspension point, so every strategy is *)
(* a small process whose position (pc) is kept in a request slot; a        *)
(* cache.put() that the source does not await is an operation in flight    *)
(* (the slot's `put`) that completes in a step of its own.                 *)
(***************************************************************************)
EXTENDS Integers, Sequences, FiniteSets, TLC

(***************************************************************************)
(* Bounds of the model.                                                    *)
(***************************************************************************)
\* number of fetch events the worker handles concurrently
NumSlots == 2
\* newest CACHE_VERSION ever deployed (v1, v2, ...)
MaxVersion == 2
\* number of distinct revisions of the content the origin server serves
MaxBody == 2
\* number of fetch events dispatched to the worker in one run
MaxRequests == 2

\* number of saves the user makes in one run (the values Date.now() takes)
MaxSaves == 2
\* number of reconciliation passes in flight at the same time
MaxPasses == 2
\* number of store requests whose onsuccess callback has not run yet
MaxCallbacks == 1
\* messages posted to the page and not yet handled
MaxMessages == 1

Slots == 1..NumSlots
Versions == 1..MaxVersion

(***************************************************************************)
(* Responses.  A response is a record; `undefined` (a cache miss, or a     *)
(* variable not yet assigned) and a rejected fetch are records of the same *)
(* shape so that they can be compared.                                     *)
(***************************************************************************)
STATUS_OK == 200
\* the statuses the origin answers with: a success and a failure
ServerStatuses == {200, 500}

Undefined == [kind |-> "undefined", status |-> 0, body |-> 0]
NetworkError == [kind |-> "error", status |-> 0, body |-> 0]
Upstream(status, body) == [kind |-> "upstream", status |-> status, body |-> body]

\* createOfflineResponse(): a synthesized document with status 200
createOfflineResponse == [kind |-> "offline", status |-> STATUS_OK, body |-> 0]

\* Response.ok: the status is in the range 200-299
Ok(response) == response.kind # "error" /\ response.status >= 200 /\ response.status <= 299

\* JavaScript truthiness of a value that is a Response or undefined
Truthy(x) == x # Undefined

(***************************************************************************)
(* URLs and requests.  Pathname(url) is `new URL(url).pathname`, as a      *)
(* sequence of characters, for the URLs of the model.                      *)
(***************************************************************************)
FONT_URL == "https://fonts.googleapis.com/css2?family=Inter:wght@400;500;600;700&display=swap"

urlsToCache ==
    { "/", "/index.html", "/styles.css", "/app.js",
      "/service-worker-register.js", "/manifest.json", FONT_URL }

Pathname(url) ==
    CASE url = "/" -> <<"/">>
      [] url = "/index.html" -> <<"/","i","n","d","e","x",".","h","t","m","l">>
      [] url = "/styles.css" -> <<"/","s","t","y","l","e","s",".","c","s","s">>
      [] url = "/app.js" -> <<"/","a","p","p",".","j","s">>
      [] url = "/service-worker-register.js" ->
            <<"/","s","e","r","v","i","c","e","-","w","o","r","k","e","r","-",
              "r","e","g","i","s","t","e","r",".","j","s">>
      [] url = "/manifest.json" -> <<"/","m","a","n","i","f","e","s","t",".","j","s","o","n">>
      [] url = FONT_URL -> <<"/","c","s","s","2">>
      [] url = "/api/app.js" -> <<"/","a","p","i","/","a","p","p",".","j","s">>

\* String.prototype.startsWith / endsWith on character sequences
StartsWith(s, prefix) ==
    Len(prefix) <= Len(s) /\ SubSeq(s, 1, Len(prefix)) = prefix
EndsWith(s, suffix) ==
    Len(suffix) <= Len(s) /\ SubSeq(s, Len(s) - Len(suffix) + 1, Len(s)) = suffix

\* String.prototype.includes on the accept header values of the model
ACCEPT_HTML == "text/html,application/xhtml+xml"
ACCEPT_ANY == "*/*"
NO_HEADER == "null"
IncludesTextHtml(accept) == accept = ACCEPT_HTML

staticExtensions ==
    { <<".","j","s">>, <<".","c","s","s">>, <<".","p","n","g">>, <<".","j","p","g">>,
      <<".","j","p","e","g">>, <<".","g","i","f">>, <<".","s","v","g">>,
      <<".","w","o","f","f">>, <<".","w","o","f","f","2">>, <<".","t","t","f">> }

isStaticAsset(url) ==
    \E ext \in staticExtensions : EndsWith(Pathname(url), ext)

Request(method, url, accept) == [method |-> method, url |-> url, accept |-> accept]
NoRequest == Request("", "", "")

\* the fetch events of the model: navigations, shell assets, API calls
Requests ==
    { Request("GET", "/", ACCEPT_HTML),
      Request("GET", "/app.js", ACCEPT_ANY),
      Request("GET", "/app.js", ACCEPT_HTML),
      Request("GET", "/manifest.json", NO_HEADER),
      Request("GET", "/api/app.js", ACCEPT_ANY),
      Request("POST", "/app.js", ACCEPT_ANY) }

(***************************************************************************)
(* Cache collections.  `caches` maps the name of every existing collection *)
(* to its entries (url -> response).                                       *)
(***************************************************************************)
CACHE_NAME(v) == <<"notepad-", v>>
RUNTIME_CACHE(v) == <<"notepad-runtime-", v>>
API_CACHE(v) == <<"notepad-api-", v>>
\* the collection left behind by the earlier worker script (src/unnamed/part_000)
LEGACY_CACHE == <<"notepad-pwa-cache-v", 3>>
APP_SHELL_ASSETS == { "/", "/index.html", "/styles.css", "/app.js", "/manifest.json" }

EmptyCache == [u \in {} |-> Undefined]

\* caches.open(name): creates the collection when it does not exist
CachesOpen(cs, name) ==
    IF name \in DOMAIN cs THEN cs
    ELSE [n \in DOMAIN cs \cup {name} |-> IF n = name THEN EmptyCache ELSE cs[n]]

\* cache.match(request) on the collection `name`
CacheMatch(cs, name, url) ==
    IF name \in DOMAIN cs /\ url \in DOMAIN cs[name] THEN cs[name][url] ELSE Undefined

\* the entries of a collection after cache.put(request, response)
WithEntry(entries, url, response) ==
    [u \in DOMAIN entries \cup {url} |-> IF u = url THEN response ELSE entries[u]]

\* caches.delete(name)
CachesDelete(cs, name) == [n \in DOMAIN cs \ {name} |-> cs[n]]

VARIABLES
    caches,       \* CacheStorage: collection name -> (url -> response)
    slots,        \* the fetch events being handled, each with the put it issued
    dispatched,   \* number of fetch events dispatched so far
    active,       \* CACHE_VERSION of the worker that last became active, 0 when none has
    worker,       \* the worker being installed / activated
    deleting,     \* caches.delete() calls issued by the activate handler
    srvBody       \* revision of the content the origin serves

VARIABLES
    notesStore,    \* IndexedDB object store 'notes': id -> note
    queueStore,    \* IndexedDB object store 'syncQueue': key -> queued change
    nextQueueId,   \* key generator of 'syncQueue' (autoIncrement)
    notes,         \* this.notes: the list loadNotes() read last
    currentNoteId, \* this.currentNoteId
    isOnline,      \* this.isOnline
    callbacks,     \* onsuccess callbacks of store requests, not yet run
    passes,        \* the syncWithServer() calls in flight
    notification,  \* the message the reconciliation code gave showNotification() last
    clock,         \* Date.now()
    nextId,        \* number of ids generateId() has produced, plus one
    sent,          \* remote endpoint: the queued changes POSTed to it so far
    acked,         \* remote endpoint: ids of the notes whose POST it answered with a success
    savedOffline,  \* for the properties: ids of the notes last saved with isOnline false
    editor,        \* the editor pane: hidden, or shown by newNote() or by loadNoteForEditing()
    messages       \* messages the service worker posted to the page, not yet handled

swVars == <<caches, slots, dispatched, active, worker, deleting, srvBody>>
appVars == <<notesStore, queueStore, nextQueueId, notes, currentNoteId, isOnline,
             callbacks, passes, notification, clock, nextId, sent, acked, savedOffline,
             editor, messages>>
vars == <<swVars, appVars>>

\* a cache.put(request, response) in flight on the collection `cache`
Put(name, url, response) == [cache |-> name, url |-> url, response |-> response]
NoPut == Put(<<"", 0>>, "", Undefined)

IdleSlot ==
    [ req |-> NoRequest, strategy |-> "none", pc |-> "idle", cached |-> Undefined,
      response |-> Undefined, responded |-> FALSE, result |-> Undefined, netCalls |-> 0,
      put |-> NoPut ]

NoWorker == [ver |-> 0, phase |-> "none"]

\* what fetch(request) can settle to: a response of any status, or a rejection
\* (the network is unavailable, the name does not resolve, the request times out)
FetchOutcomes ==
    {Upstream(st, srvBody) : st \in ServerStatuses} \cup {NetworkError}

InitSW ==
    /\ caches = [n \in {LEGACY_CACHE} |-> [u \in APP_SHELL_ASSETS |-> Upstream(STATUS_OK, 1)]]
    /\ slots = [s \in Slots |-> IdleSlot]
    /\ dispatched = 0
    /\ active = 0
    /\ worker = NoWorker
    /\ deleting = {}
    /\ srvBody = 1


(***************************************************************************)
(* The page (src/app.js): notes, queued changes, reconciliation passes.    *)
(***************************************************************************)
Null == 0
NoteIds == 1..MaxSaves
QueueIds == 1..MaxSaves
PassIds == 1..MaxPasses

Note(id, title, content, timestamp, synced) ==
    [id |-> id, title |-> title, content |-> content, timestamp |-> timestamp,
     synced |-> synced]

EmptyStore == [k \in {} |-> Null]

\* a syncWithServer(queue) call: the queue it was given, the index of the item
\* whose POST it awaits, the number of POSTs answered with a success so far;
\* startedAt records, for the properties, the time at which the queue was read
IdlePass ==
    [pc |-> "idle", queue |-> <<>>, i |-> 0, oks |-> 0, startedAt |-> 0]

InitApp ==
    /\ notesStore = EmptyStore
    /\ queueStore = EmptyStore
    /\ nextQueueId = 1
    /\ notes = <<>>
    /\ currentNoteId = Null
    /\ isOnline = TRUE
    /\ callbacks = <<>>
    /\ passes = [k \in PassIds |-> IdlePass]
    /\ notification = ""
    /\ clock = 1
    /\ nextId = 1
    /\ sent = {}
    /\ acked = {}
    /\ savedOffline = {}
    /\ editor = "hidden"
    /\ messages = <<>>

Init == InitSW /\ InitApp

lifecycle == <<active, worker, deleting>>
env == <<srvBody>>

(***************************************************************************)
(* Lifecycle: install.                                                     *)
(***************************************************************************)
\* cache.addAll(urls): every url is fetched; the entries are written only
\* when every response is ok, otherwise the promise rejects and nothing is
\* written
addAll_Partial(entries, results) ==
    [u \in DOMAIN entries \cup {x \in DOMAIN results : Ok(results[x])} |->
        IF u \in DOMAIN results /\ Ok(results[u]) THEN results[u] ELSE entries[u]]

addAll(entries, results) ==
    IF \A u \in DOMAIN results : Ok(results[u])
    THEN [u \in DOMAIN entries \cup DOMAIN results |->
            IF u \in DOMAIN results THEN results[u] ELSE entries[u]]
    ELSE entries

\* the outcomes of the fetches addAll makes: the urls of `bad` fail with
\* `failure`, the others are served
AddAllResults(bad, failure) ==
    [u \in urlsToCache |-> IF u \in bad THEN failure ELSE Upstream(STATUS_OK, srvBody)]

\* the sets of urls whose fetch fails in one install: none, any one, all
FailureSets ==
    {{}} \cup {{u} : u \in urlsToCache} \cup {urlsToCache}

\* 'install' event of a new worker: caches.open(CACHE_NAME)
InstallOpen ==
    /\ worker.phase \in {"none", "redundant"}
    /\ LET v == IF worker.phase = "redundant" THEN worker.ver ELSE active + 1 IN
         /\ v \in Versions
         /\ worker' = [ver |-> v, phase |-> "installing"]
         /\ caches' = CachesOpen(caches, CACHE_NAME(v))
    /\ UNCHANGED <<slots, dispatched, active, deleting, env, appVars>>

\* cache.addAll(urlsToCache) settles; on success self.skipWaiting() is called,
\* on failure the promise given to waitUntil rejects and the worker is discarded
InstallAddAll ==
    /\ worker.phase = "installing"
    /\ \E bad \in FailureSets, failure \in FetchOutcomes \ {Upstream(STATUS_OK, srvBody)} :
         /\ LET results == AddAllResults(bad, failure)
                name == CACHE_NAME(worker.ver) IN
              /\ caches' = [caches EXCEPT ![name] = addAll(@, results)]
              /\ worker' = [worker EXCEPT !.phase =
                              IF \A u \in urlsToCache : Ok(results[u])
                              THEN "installed" ELSE "redundant"]
    /\ UNCHANGED <<slots, dispatched, active, deleting, env, appVars>>

(***************************************************************************)
(* Lifecycle: activate.  skipWaiting() was called, so the worker activates *)
(* as soon as the previous worker has answered its in-progress fetch       *)
(* events; the previous worker is then terminated, which abandons the      *)
(* background work it had not finished (a revalidation, a put into a       *)
(* collection of its own version, which activation deletes anyway).        *)
(***************************************************************************)
\* the test of the activate handler: the collection is none of the three
\* collections of the current version
IsOldCache_Or(cacheName, v) ==
    \/ cacheName # CACHE_NAME(v)
    \/ cacheName # RUNTIME_CACHE(v)
    \/ cacheName # API_CACHE(v)

IsOldCache(cacheName, v) ==
    /\ cacheName # CACHE_NAME(v)
    /\ cacheName # RUNTIME_CACHE(v)
    /\ cacheName # API_CACHE(v)

\* 'activate' event: caches.keys() resolves and a caches.delete() is issued
\* for every old collection
ActivateKeys ==
    /\ worker.phase = "installed"
    /\ \A s \in Slots : slots[s].pc = "idle" \/ slots[s].responded
    /\ worker' = [worker EXCEPT !.phase = "activating"]
    /\ deleting' = {n \in DOMAIN caches : IsOldCache(n, worker.ver)}
    /\ slots' = [s \in Slots |-> IdleSlot]
    /\ UNCHANGED <<caches, dispatched, active, env, appVars>>

\* one caches.delete(cacheName) completes
ActivateDelete ==
    /\ worker.phase = "activating"
    /\ \E n \in deleting :
         /\ caches' = CachesDelete(caches, n)
         /\ deleting' = deleting \ {n}
    /\ UNCHANGED <<slots, dispatched, active, worker, env, appVars>>

\* Promise.all settles, self.clients.claim(): the worker is active
ActivateClaim ==
    /\ worker.phase = "activating"
    /\ deleting = {}
    /\ active' = worker.ver
    /\ worker' = NoWorker
    /\ UNCHANGED <<caches, slots, dispatched, deleting, env, appVars>>

(***************************************************************************)
(* Fetch router.                                                           *)
(***************************************************************************)
\* the strategy the 'fetch' listener hands the request to; "bypass" when the
\* listener returns without calling respondWith
Route_StaticFirst(req) ==
    IF req.method # "GET" THEN "bypass"
    ELSE IF isStaticAsset(req.url) THEN "cacheFirst"
    ELSE IF StartsWith(Pathname(req.url), <<"/","a","p","i","/">>) THEN "networkFirst"
    ELSE IF req.accept # NO_HEADER /\ IncludesTextHtml(req.accept) THEN "networkFirst"
    ELSE "staleWhileRevalidate"

Route(req) ==
    IF req.method # "GET" THEN "bypass"
    ELSE IF StartsWith(Pathname(req.url), <<"/","a","p","i","/">>) THEN "networkFirst"
    ELSE IF req.accept # NO_HEADER /\ IncludesTextHtml(req.accept) THEN "networkFirst"
    ELSE IF isStaticAsset(req.url) THEN "cacheFirst"
    ELSE "staleWhileRevalidate"

\* where each strategy starts
FirstStep(strategy) ==
    CASE strategy = "bypass" -> "bypass"
      [] strategy = "networkFirst" -> "nf_fetch"
      [] strategy = "cacheFirst" -> "cf_open"
      [] strategy = "staleWhileRevalidate" -> "swr_open"

\* 'fetch' event: the router classifies the request
FetchEvent(s) ==
    /\ active # 0
    /\ worker.phase # "activating"
    /\ slots[s].pc = "idle"
    /\ \A t \in Slots : t < s => slots[t].pc # "idle"
    /\ dispatched < MaxRequests
    /\ dispatched' = dispatched + 1
    /\ \E req \in Requests :
         slots' = [slots EXCEPT ![s] =
                     [IdleSlot EXCEPT !.req = req,
                                      !.strategy = Route(req),
                                      !.pc = FirstStep(Route(req))]]
    /\ UNCHANGED <<caches, lifecycle, env, appVars>>

\* a request the listener did not answer is fetched by the browser itself
Bypass(s) ==
    /\ slots[s].pc = "bypass"
    /\ \E out \in FetchOutcomes :
         slots' = [slots EXCEPT ![s].response = out, ![s].result = out,
                                ![s].responded = TRUE, ![s].netCalls = @ + 1,
                                ![s].pc = "done"]
    /\ UNCHANGED <<caches, dispatched, lifecycle, env, appVars>>

\* the response has been delivered and the handler has nothing left in flight
Finish(s) ==
    /\ slots[s].pc = "done"
    /\ slots[s].put = NoPut
    /\ slots' = [slots EXCEPT ![s] = IdleSlot]
    /\ UNCHANGED <<caches, dispatched, lifecycle, env, appVars>>

(***************************************************************************)
(* cache.put(request, response.clone()) is never awaited by the source:    *)
(* the call is issued and completes later.                                 *)
(***************************************************************************)
\* `if (response.ok) { cache.put(request, response.clone()) }`
PutAlways(name, url, response) == Put(name, url, response)

PutIfOk(name, url, response) ==
    IF Ok(response) THEN Put(name, url, response) ELSE NoPut

\* the put of a handler completes
CachePut(s) ==
    /\ slots[s].put # NoPut
    /\ LET p == slots[s].put IN
         caches' = IF p.cache \in DOMAIN caches
                   THEN [caches EXCEPT ![p.cache] = WithEntry(@, p.url, p.response)]
                   ELSE caches
    /\ slots' = [slots EXCEPT ![s].put = NoPut]
    /\ UNCHANGED <<dispatched, lifecycle, env, appVars>>

(***************************************************************************)
(* Cache First.                                                            *)
(***************************************************************************)
\* `if (cached) { return cached; }`
cacheFirstHit_Never(cached) == FALSE

cacheFirstHit(cached) == Truthy(cached)

\* await caches.open(RUNTIME_CACHE)
CF_Open(s) ==
    /\ slots[s].pc = "cf_open"
    /\ caches' = CachesOpen(caches, RUNTIME_CACHE(active))
    /\ slots' = [slots EXCEPT ![s].pc = "cf_match"]
    /\ UNCHANGED <<dispatched, lifecycle, env, appVars>>

\* await cache.match(request), and the return on a hit
CF_Match(s) ==
    /\ slots[s].pc = "cf_match"
    /\ LET cached == CacheMatch(caches, RUNTIME_CACHE(active), slots[s].req.url) IN
         slots' = IF cacheFirstHit(cached)
                  THEN [slots EXCEPT ![s].cached = cached, ![s].result = cached,
                                     ![s].responded = TRUE, ![s].pc = "done"]
                  ELSE [slots EXCEPT ![s].cached = cached, ![s].pc = "cf_fetch"]
    /\ UNCHANGED <<caches, dispatched, lifecycle, env, appVars>>

\* await fetch(request); the put of an ok response; the catch block
CF_Fetch(s) ==
    /\ slots[s].pc = "cf_fetch"
    /\ \E out \in FetchOutcomes :
         slots' = [slots EXCEPT
                     ![s].response = out,
                     ![s].netCalls = @ + 1,
                     ![s].put = IF out = NetworkError THEN NoPut
                                ELSE PutIfOk(RUNTIME_CACHE(active), slots[s].req.url, out),
                     ![s].result = IF out = NetworkError THEN createOfflineResponse ELSE out,
                     ![s].responded = TRUE,
                     ![s].pc = "done"]
    /\ UNCHANGED <<caches, dispatched, lifecycle, env, appVars>>

(***************************************************************************)
(* Network First.                                                          *)
(***************************************************************************)
\* `return cache.match(request) || createOfflineResponse();` : cache.match
\* returns a promise, which is truthy whatever it resolves to, so the async
\* function resolves to what the promise resolves to
networkFirstNotOk(cached) == cached

networkFirstCatch_NoCache(cached) == createOfflineResponse

\* the catch block: `if (cached) { return cached; } return createOfflineResponse();`
networkFirstCatch(cached) == IF Truthy(cached) THEN cached ELSE createOfflineResponse

\* await fetch(request)
NF_Fetch(s) ==
    /\ slots[s].pc = "nf_fetch"
    /\ \E out \in FetchOutcomes :
         slots' = [slots EXCEPT ![s].response = out, ![s].netCalls = @ + 1,
                                ![s].pc = IF out = NetworkError THEN "nf_open_err"
                                          ELSE IF Ok(out) THEN "nf_open_ok"
                                          ELSE "nf_open_bad"]
    /\ UNCHANGED <<caches, dispatched, lifecycle, env, appVars>>

\* response.ok: await caches.open(API_CACHE), cache.put, return response
NF_OpenOk(s) ==
    /\ slots[s].pc = "nf_open_ok"
    /\ caches' = CachesOpen(caches, API_CACHE(active))
    /\ slots' = [slots EXCEPT
                   ![s].put = PutIfOk(API_CACHE(active), slots[s].req.url, slots[s].response),
                   ![s].result = slots[s].response,
                   ![s].responded = TRUE,
                   ![s].pc = "done"]
    /\ UNCHANGED <<dispatched, lifecycle, env, appVars>>

\* response not ok, or fetch rejected: await caches.open(API_CACHE)
NF_OpenFallback(s) ==
    /\ slots[s].pc \in {"nf_open_bad", "nf_open_err"}
    /\ caches' = CachesOpen(caches, API_CACHE(active))
    /\ slots' = [slots EXCEPT ![s].pc = IF slots[s].pc = "nf_open_bad"
                                        THEN "nf_match_bad" ELSE "nf_match_err"]
    /\ UNCHANGED <<dispatched, lifecycle, env, appVars>>

\* cache.match(request) resolves, and the function returns
NF_MatchFallback(s) ==
    /\ slots[s].pc \in {"nf_match_bad", "nf_match_err"}
    /\ LET cached == CacheMatch(caches, API_CACHE(active), slots[s].req.url) IN
         slots' = [slots EXCEPT ![s].cached = cached,
                                ![s].result = IF slots[s].pc = "nf_match_bad"
                                              THEN networkFirstNotOk(cached)
                                              ELSE networkFirstCatch(cached),
                                ![s].responded = TRUE, ![s].pc = "done"]
    /\ UNCHANGED <<caches, dispatched, lifecycle, env, appVars>>

(***************************************************************************)
(* Stale While Revalidate.                                                 *)
(***************************************************************************)
staleWhileRevalidateResult_AwaitFetch(cached, fetched) == fetched

\* `return cached || fetchPromise;`
staleWhileRevalidateResult(cached, fetched) == IF Truthy(cached) THEN cached ELSE fetched

\* await caches.open(RUNTIME_CACHE)
SWR_Open(s) ==
    /\ slots[s].pc = "swr_open"
    /\ caches' = CachesOpen(caches, RUNTIME_CACHE(active))
    /\ slots' = [slots EXCEPT ![s].pc = "swr_match"]
    /\ UNCHANGED <<dispatched, lifecycle, env, appVars>>

\* await cache.match(request); fetch(request) is issued; `cached || fetchPromise`
\* is returned, which answers the request at once when cached is truthy
SWR_Match(s) ==
    /\ slots[s].pc = "swr_match"
    /\ LET cached == CacheMatch(caches, RUNTIME_CACHE(active), slots[s].req.url)
           early == staleWhileRevalidateResult(cached, Undefined) IN
         slots' = [slots EXCEPT ![s].cached = cached, ![s].netCalls = @ + 1,
                                ![s].result = early,
                                ![s].responded = Truthy(early),
                                ![s].pc = "swr_fetch"]
    /\ UNCHANGED <<caches, dispatched, lifecycle, env, appVars>>

\* the fetch settles: .then (put of an ok response) or .catch (offline response)
SWR_Fetch(s) ==
    /\ slots[s].pc = "swr_fetch"
    /\ \E out \in FetchOutcomes :
         LET fetched == IF out = NetworkError THEN createOfflineResponse ELSE out IN
           slots' = [slots EXCEPT
                       ![s].response = out,
                       ![s].put = IF out = NetworkError THEN NoPut
                                  ELSE PutIfOk(RUNTIME_CACHE(active), slots[s].req.url, out),
                       ![s].result = staleWhileRevalidateResult(slots[s].cached, fetched),
                       ![s].responded = TRUE,
                       ![s].pc = "done"]
    /\ UNCHANGED <<caches, dispatched, lifecycle, env, appVars>>

(***************************************************************************)
(* Environment of the worker.                                              *)
(***************************************************************************)
\* the origin publishes a new revision of its content
ServerUpdate ==
    /\ srvBody < MaxBody
    /\ srvBody' = srvBody + 1
    /\ UNCHANGED <<caches, slots, dispatched, lifecycle, appVars>>

NextSW ==
    \/ InstallOpen
    \/ InstallAddAll
    \/ ActivateKeys
    \/ ActivateDelete
    \/ ActivateClaim
    \/ \E s \in Slots : FetchEvent(s)
    \/ \E s \in Slots : Bypass(s)
    \/ \E s \in Slots : Finish(s)
    \/ \E s \in Slots : CachePut(s)
    \/ \E s \in Slots : CF_Open(s)
    \/ \E s \in Slots : CF_Match(s)
    \/ \E s \in Slots : CF_Fetch(s)
    \/ \E s \in Slots : NF_Fetch(s)
    \/ \E s \in Slots : NF_OpenOk(s)
    \/ \E s \in Slots : NF_OpenFallback(s)
    \/ \E s \in Slots : NF_MatchFallback(s)
    \/ \E s \in Slots : SWR_Open(s)
    \/ \E s \in Slots : SWR_Match(s)
    \/ \E s \in Slots : SWR_Fetch(s)
    \/ ServerUpdate

SWSpec == Init /\ [][NextSW]_vars


(***************************************************************************)
(* Properties of the service worker.                                       *)
(***************************************************************************)
Answered(s) == slots[s].pc = "done" /\ slots[s].responded
ReservedNames(v) == {CACHE_NAME(v), RUNTIME_CACHE(v), API_CACHE(v)}

\* C1: once install has succeeded, a GET for a resource of urlsToCache whose
\* fetch fails because the network is unavailable is answered with the copy
\* pre-cached at install (not with the offline placeholder, not with nothing).
C1_ShellServedOffline ==
    \A s \in Slots :
        ( /\ Answered(s)
          /\ slots[s].req.method = "GET"
          /\ slots[s].req.url \in urlsToCache
          /\ slots[s].response = NetworkError )
        => slots[s].result = CacheMatch(caches, CACHE_NAME(active), slots[s].req.url)

\* C2: every strategy answers every request with a well-formed response: the
\* upstream response, a cached copy or the offline placeholder, never undefined.
C2_AlwaysAResponse ==
    \A s \in Slots :
        (Answered(s) /\ slots[s].strategy # "bypass")
        => slots[s].result.kind \in {"upstream", "offline"}

\* C3: a Cache-First lookup of a static asset that finds the asset in the
\* runtime cache makes no network call and returns the cached entry.
C3_CacheFirstHit ==
    \A s \in Slots :
        (slots[s].strategy = "cacheFirst" /\ Truthy(slots[s].cached))
        => /\ isStaticAsset(slots[s].req.url)
           /\ slots[s].netCalls = 0
           /\ Answered(s)
           /\ slots[s].result = slots[s].cached
           /\ slots[s].put = NoPut

C3_Witness ==
    \E s \in Slots :
        /\ slots[s].strategy = "cacheFirst"
        /\ Truthy(slots[s].cached)
        /\ Answered(s)

\* C4: Network-First returns the live response and stores a copy of it when
\* the fetch succeeds with a success status; when the fetch rejects or the
\* status is not a success and the api cache holds a copy of the request, it
\* returns that copy, not the offline placeholder.
C4_NetworkFirst ==
    \A s \in Slots :
        (slots[s].strategy = "networkFirst" /\ Answered(s))
        => /\ Ok(slots[s].response)
              => /\ slots[s].result = slots[s].response
                 /\ \/ slots[s].put = Put(API_CACHE(active), slots[s].req.url, slots[s].response)
                    \/ /\ slots[s].put = NoPut
                       /\ Truthy(CacheMatch(caches, API_CACHE(active), slots[s].req.url))
           /\ (~Ok(slots[s].response) /\ Truthy(slots[s].cached))
              => /\ slots[s].result = slots[s].cached
                 /\ slots[s].result # createOfflineResponse

C4_Witness ==
    \E s \in Slots :
        /\ slots[s].strategy = "networkFirst"
        /\ Answered(s)
        /\ slots[s].response = NetworkError
        /\ Truthy(slots[s].cached)
        /\ slots[s].result = slots[s].cached

\* C5: Stale-While-Revalidate answers a request that has a cached copy with
\* that copy while its background fetch is still outstanding; when a
\* background fetch has completed successfully (its put has completed) the
\* runtime cache holds the refreshed copy, and a request that is looked up
\* then is answered with the copy the cache holds.
C5_AnsweredFromCache ==
    \A s \in Slots :
        ( /\ slots[s].strategy = "staleWhileRevalidate"
          /\ slots[s].pc \in {"swr_fetch", "done"}
          /\ Truthy(slots[s].cached) )
        => slots[s].responded /\ slots[s].result = slots[s].cached

C5_RefreshStored ==
    \A s \in Slots :
        ( /\ slots[s].strategy = "staleWhileRevalidate"
          /\ slots[s].put # NoPut
          /\ slots'[s].put = NoPut
          /\ slots'[s].pc = "done" )
        => /\ Ok(slots[s].response)
           /\ CacheMatch(caches', RUNTIME_CACHE(active), slots[s].req.url) = slots[s].response

C5_LookupReturnsStored ==
    \A s \in Slots :
        ( /\ slots[s].pc = "swr_match"
          /\ slots'[s].pc # "swr_match"
          /\ slots'[s].pc # "idle"
          /\ Truthy(CacheMatch(caches, RUNTIME_CACHE(active), slots[s].req.url)) )
        => /\ slots'[s].responded
           /\ slots'[s].result = CacheMatch(caches, RUNTIME_CACHE(active), slots[s].req.url)
           /\ slots'[s].pc = "swr_fetch"

C5_StaleWhileRevalidate ==
    /\ []C5_AnsweredFromCache
    /\ [][C5_RefreshStored]_vars
    /\ [][C5_LookupReturnsStored]_vars

\* answered from a copy that an earlier revalidation stored, with the
\* request's own background fetch still outstanding
C5_Witness ==
    \E s \in Slots :
        /\ slots[s].strategy = "staleWhileRevalidate"
        /\ slots[s].pc = "swr_fetch"
        /\ slots[s].responded
        /\ slots[s].result.kind = "upstream"

\* C6: every entry of every cache collection, and every put in flight, is an
\* upstream response with a success status: a rejected fetch, a non-success
\* response and the offline placeholder are never written, so they neither
\* create an entry nor replace one.
C6_OnlySuccessCached ==
    /\ \A n \in DOMAIN caches : \A u \in DOMAIN caches[n] :
          caches[n][u].kind = "upstream" /\ Ok(caches[n][u])
    /\ \A s \in Slots :
          slots[s].put # NoPut
          => slots[s].put.response.kind = "upstream" /\ Ok(slots[s].put.response)

\* a request whose fetch was answered with a failure status while the cache
\* held a copy of it
C6_Witness ==
    \E s \in Slots :
        /\ Answered(s)
        /\ slots[s].response.kind = "upstream"
        /\ ~Ok(slots[s].response)
        /\ Truthy(slots[s].cached)

\* C7: the router hands a GET request to the strategy of the first category
\* it matches, in the order API path, HTML document, static asset, other; a
\* request that is not a GET gets no strategy, and handling it reads and
\* writes no cache.
C7_Category(req) ==
    CASE req.method # "GET" -> "bypass"
      [] req.method = "GET" /\ StartsWith(Pathname(req.url), <<"/","a","p","i","/">>)
            -> "networkFirst"
      [] req.method = "GET" /\ ~StartsWith(Pathname(req.url), <<"/","a","p","i","/">>)
            /\ req.accept = ACCEPT_HTML
            -> "networkFirst"
      [] req.method = "GET" /\ ~StartsWith(Pathname(req.url), <<"/","a","p","i","/">>)
            /\ req.accept # ACCEPT_HTML /\ isStaticAsset(req.url)
            -> "cacheFirst"
      [] OTHER -> "staleWhileRevalidate"

C7_Classified ==
    \A s \in Slots :
        slots[s].pc # "idle"
        => /\ slots[s].strategy = C7_Category(slots[s].req)
           /\ slots[s].strategy = "bypass"
              => /\ slots[s].pc \in {"bypass", "done"}
                 /\ slots[s].cached = Undefined
                 /\ slots[s].put = NoPut

C7_BypassLeavesCaches ==
    \A s \in Slots :
        (slots[s].strategy = "bypass" /\ slots'[s] # slots[s]) => caches' = caches

C7_Router ==
    /\ []C7_Classified
    /\ [][C7_BypassLeavesCaches]_vars

C7_Witness ==
    \E s, t \in Slots :
        /\ slots[s].req = Request("GET", "/app.js", ACCEPT_HTML)
        /\ slots[s].strategy = "networkFirst"
        /\ Answered(s)
        /\ slots[t].req.method = "POST"
        /\ Answered(t)

\* C8: install is all or nothing: a worker whose install succeeded has every
\* resource of urlsToCache in the shell cache of its version; a worker whose
\* install failed has written nothing to the shell cache and is not active.
C8_InstallAllOrNothing ==
    /\ worker.phase \in {"installed", "activating"}
       => \A u \in urlsToCache :
             Ok(CacheMatch(caches, CACHE_NAME(worker.ver), u))
    /\ (active # 0 /\ worker.phase # "activating")
       => \A u \in urlsToCache : Ok(CacheMatch(caches, CACHE_NAME(active), u))
    /\ worker.phase = "redundant"
       => /\ CACHE_NAME(worker.ver) \in DOMAIN caches
          /\ caches[CACHE_NAME(worker.ver)] = EmptyCache
          /\ active # worker.ver

\* an upgrade whose install failed while the previous version is active
C8_Witness ==
    /\ worker.phase = "redundant"
    /\ active # 0

\* C9: when activation completes, every collection that exists is one of the
\* three collections of the activated version and the shell cache of that
\* version is still there; a collection is only ever deleted by an activation,
\* and never one of the activating version's own.
C9_AtActivation ==
    active' # active
    => /\ DOMAIN caches' \subseteq ReservedNames(active')
       /\ CACHE_NAME(active') \in DOMAIN caches'

C9_OnlyOldDeleted ==
    \A n \in DOMAIN caches \ DOMAIN caches' :
        worker.phase = "activating" /\ n \notin ReservedNames(worker.ver)

C9_OldCachesDeleted ==
    /\ [][C9_AtActivation]_vars
    /\ [][C9_OnlyOldDeleted]_vars

\* version 2 is active and no collection of version 1 is left
C9_Witness ==
    /\ active = 2
    /\ DOMAIN caches \subseteq ReservedNames(2)
    /\ DOMAIN caches \cap ReservedNames(1) = {}


(***************************************************************************)
(* The page: store operations.  IndexedDB runs the read-write transactions *)
(* of one object store in the order in which they were created, so a       *)
(* request takes effect on the store where it is issued; its onsuccess     *)
(* callback runs later, in the order of the requests (callbacks).          *)
(***************************************************************************)
\* store.put(record) on a store whose key path is `id`
StorePut(store, record) ==
    [k \in DOMAIN store \cup {record.id} |-> IF k = record.id THEN record ELSE store[k]]

\* store.delete(key)
StoreDelete(store, key) == [k \in DOMAIN store \ {key} |-> store[k]]

\* store.getAll(): the records in the order of their keys
StoreGetAll(store) ==
    LET n == Cardinality(DOMAIN store) IN
      [j \in 1..n |->
         store[CHOOSE k \in DOMAIN store :
                 Cardinality({m \in DOMAIN store : m < k}) = j - 1]]

\* loadNotes(): getAll() sorted by timestamp, newest first
LoadNotes(store) ==
    LET n == Cardinality(DOMAIN store) IN
      [j \in 1..n |->
         store[CHOOSE k \in DOMAIN store :
                 Cardinality({m \in DOMAIN store :
                                \/ store[m].timestamp > store[k].timestamp
                                \/ /\ store[m].timestamp = store[k].timestamp
                                   /\ m < k}) = j - 1]]

\* the record with key `id` as loadNotes() and this.notes.find() return it
Reload(store, id) ==
    LET list == LoadNotes(store) IN
      list[CHOOSE j \in 1..Len(list) : list[j].id = id]

\* String.prototype.trim on the title inputs of the model
Trim(text) == IF text = " t " THEN "t" ELSE IF text = " " THEN "" ELSE text

TitleInputs == {"", " t "}
ContentInputs == {"", "x"}

\* a save that stores the same title whatever it is given
TitleOrUntitled_Always(title) == "Untitled"

\* title || 'Untitled'
TitleOrUntitled(title) == IF title = "" THEN "Untitled" ELSE title

(***************************************************************************)
(* The page: the editor.  The notifications of the editor ('Note saved     *)
(* successfully!', 'Note deleted', 'Back online!', ...) are not recorded.  *)
(***************************************************************************)
\* newNote()
NewNote ==
    /\ currentNoteId' = Null
    /\ editor' = "new"
    /\ UNCHANGED <<notesStore, queueStore, nextQueueId, notes, isOnline, callbacks,
                   passes, notification, clock, nextId, sent, acked, savedOffline,
                   messages, swVars>>

\* loadNoteForEditing(noteId), for a note of the list
LoadNoteForEditing ==
    /\ \E j \in 1..Len(notes) : currentNoteId' = notes[j].id
    /\ editor' = "edit"
    /\ UNCHANGED <<notesStore, queueStore, nextQueueId, notes, isOnline, callbacks,
                   passes, notification, clock, nextId, sent, acked, savedOffline,
                   messages, swVars>>

\* handleSaveNote() and the synchronous part of saveNote(title, content): the
\* note is built and store.put(note) is issued; the request keeps, for the
\* properties, the arguments saveNote was called with
HandleSaveNote ==
    /\ clock <= MaxSaves
    /\ Len(callbacks) < MaxCallbacks
    /\ \E titleInput \in TitleInputs, content \in ContentInputs :
         LET title == Trim(titleInput) IN
           IF title = "" /\ content = ""
           THEN UNCHANGED <<notesStore, callbacks, clock, nextId, savedOffline, editor>>
           ELSE LET id == IF currentNoteId # Null THEN currentNoteId ELSE nextId
                    note == Note(id, TitleOrUntitled(title), content, clock, FALSE) IN
                  /\ notesStore' = StorePut(notesStore, note)
                  /\ callbacks' = Append(callbacks, [kind |-> "save", note |-> note,
                                                     args |-> <<title, content>>])
                  /\ nextId' = IF currentNoteId # Null THEN nextId ELSE nextId + 1
                  /\ clock' = clock + 1
                  /\ savedOffline' = IF isOnline THEN savedOffline \ {id}
                                     ELSE savedOffline \cup {id}
                  /\ editor' = "hidden"
    /\ UNCHANGED <<queueStore, nextQueueId, notes, currentNoteId, isOnline, passes,
                   notification, sent, acked, messages, swVars>>

\* queueSync(note): store.add({action: 'save', note: note, timestamp}) on 'syncQueue'
queueSync(store, key, note) == StorePut(store, [id |-> key, note |-> note])

\* `if (this.isOnline) { this.queueSync(note); }`
ShouldQueue(online) == online

\* request.onsuccess of saveNote
SaveSuccess ==
    /\ callbacks # <<>>
    /\ Head(callbacks).kind = "save"
    /\ LET note == Head(callbacks).note IN
         /\ currentNoteId' = note.id
         /\ IF ShouldQueue(isOnline)
            THEN /\ queueStore' = queueSync(queueStore, nextQueueId, note)
                 /\ nextQueueId' = nextQueueId + 1
            ELSE UNCHANGED <<queueStore, nextQueueId>>
    /\ callbacks' = Tail(callbacks)
    /\ notes' = LoadNotes(notesStore)
    /\ UNCHANGED <<notesStore, isOnline, passes, notification, clock, nextId, sent,
                   acked, savedOffline,
                   messages, editor, swVars>>

\* handleDeleteNote() and the synchronous part of deleteNote(this.currentNoteId)
HandleDeleteNote ==
    /\ currentNoteId # Null
    /\ Len(callbacks) < MaxCallbacks
    /\ notesStore' = StoreDelete(notesStore, currentNoteId)
    /\ callbacks' = Append(callbacks,
                           [kind |-> "delete",
                            note |-> Note(currentNoteId, "", "", 0, FALSE),
                            args |-> <<"", "">>])
    /\ savedOffline' = savedOffline \ {currentNoteId}
    /\ UNCHANGED <<queueStore, nextQueueId, notes, currentNoteId, isOnline, passes,
                   notification, clock, nextId, sent, acked, messages, editor, swVars>>

\* request.onsuccess of deleteNote
DeleteSuccess ==
    /\ callbacks # <<>>
    /\ Head(callbacks).kind = "delete"
    /\ currentNoteId' = IF currentNoteId = Head(callbacks).note.id
                         THEN Null ELSE currentNoteId
    /\ editor' = IF currentNoteId = Head(callbacks).note.id THEN "hidden" ELSE editor
    /\ callbacks' = Tail(callbacks)
    /\ notes' = LoadNotes(notesStore)
    /\ UNCHANGED <<notesStore, queueStore, nextQueueId, isOnline, passes, notification,
                   clock, nextId, sent, acked, savedOffline,
                   messages, swVars>>

(***************************************************************************)
(* The page: reconciliation.                                               *)
(***************************************************************************)
\* the pass slot a new syncWithServer() call takes
FreePass == CHOOSE k \in PassIds :
                /\ passes[k].pc = "idle"
                /\ \A j \in PassIds : j < k => passes[j].pc # "idle"

\* an autoSync() that does not look at the connectivity flag
AutoSyncStarts_Always(online) == queueStore # EmptyStore

\* autoSync() starts a pass: `if (!this.isOnline) return;` and
\* `if (queue.length > 0) { this.syncWithServer(queue); }`
AutoSyncStarts(online) == online /\ queueStore # EmptyStore

\* autoSync(), with the value of this.isOnline it reads: getAll() of
\* 'syncQueue', and the first POST of syncWithServer(queue)
AutoSync(online) ==
    IF AutoSyncStarts(online)
    THEN LET queue == StoreGetAll(queueStore) IN
           /\ \E k \in PassIds : passes[k].pc = "idle"
           /\ passes' = [passes EXCEPT ![FreePass] =
                           [pc |-> "await", queue |-> queue, i |-> 1, oks |-> 0,
                            startedAt |-> clock]]
           /\ sent' = sent \cup {queue[1].id}
    ELSE UNCHANGED <<passes, sent>>

\* setInterval(() => this.autoSync(), 30000)
TimerTick ==
    /\ AutoSync(isOnline)
    /\ UNCHANGED <<notesStore, queueStore, nextQueueId, notes, currentNoteId, isOnline,
                   callbacks, notification, clock, nextId, acked, savedOffline,
                   messages, editor, swVars>>

\* window 'online' event
OnlineEvent ==
    /\ ~isOnline
    /\ isOnline' = TRUE
    /\ AutoSync(TRUE)
    /\ UNCHANGED <<notesStore, queueStore, nextQueueId, notes, currentNoteId,
                   callbacks, notification, clock, nextId, acked, savedOffline,
                   messages, editor, swVars>>

\* window 'offline' event
OfflineEvent ==
    /\ isOnline
    /\ isOnline' = FALSE
    /\ UNCHANGED <<notesStore, queueStore, nextQueueId, notes, currentNoteId,
                   callbacks, passes, notification, clock, nextId, sent, acked, savedOffline,
                   messages, editor, swVars>>

\* handleManualSync()
HandleManualSync ==
    /\ IF ~isOnline
       THEN /\ notification' = "You are offline"
            /\ UNCHANGED <<passes, sent>>
       ELSE /\ AutoSync(isOnline)
            /\ UNCHANGED notification
    /\ UNCHANGED <<notesStore, queueStore, nextQueueId, notes, currentNoteId, isOnline,
                   callbacks, clock, nextId, acked, savedOffline,
                   messages, editor, swVars>>

\* `const note = item.note; note.synced = true; store.put(note);`
MarkSynced(store, item) == StorePut(store, [item.note EXCEPT !.synced = TRUE])

\* the two object stores
Stored(notesSt, queueSt) == [notes |-> notesSt, queue |-> queueSt]

\* a pass that queues the change again when the response is not ok
AckStep_Requeue(S, item, ok) ==
    IF ok
    THEN Stored(MarkSynced(S.notes, item), StoreDelete(S.queue, item.id))
    ELSE Stored(S.notes,
                queueSync(S.queue, Cardinality(DOMAIN S.queue) + item.id + 1, item.note))

\* a pass that does not look at response.ok
AckStep_Unchecked(S, item, ok) ==
    Stored(MarkSynced(S.notes, item), StoreDelete(S.queue, item.id))

\* a pass that marks the note of an acknowledged item and keeps its queue record
AckStep_KeepRecord(S, item, ok) ==
    IF ok
    THEN Stored(MarkSynced(S.notes, item), S.queue)
    ELSE S

\* `if (response.ok) { ... store.put(note); ... queueStore.delete(item.id); }`
AckStep(S, item, ok) ==
    IF ok
    THEN Stored(MarkSynced(S.notes, item), StoreDelete(S.queue, item.id))
    ELSE S

\* the POST of item i of the pass settles: response.ok, a response that is
\* not ok, or a rejection, which the catch block of syncWithServer handles;
\* after the last item loadNotes() and the success notification follow
SyncResponseWith(k, out) ==
    /\ passes[k].pc = "await"
    /\ LET p == passes[k]
           item == p.queue[p.i]
           last == p.i = Len(p.queue) IN
           IF out = "throw"
           THEN /\ passes' = [passes EXCEPT ![k] = IdlePass]
                /\ notification' = "Failed to sync with server"
                /\ UNCHANGED <<notesStore, queueStore, notes, sent, acked>>
           ELSE /\ notesStore' = AckStep(Stored(notesStore, queueStore), item, out = "ok").notes
                /\ queueStore' = AckStep(Stored(notesStore, queueStore), item, out = "ok").queue
                /\ acked' = IF out = "ok" THEN acked \cup {item.note.id} ELSE acked
                /\ IF last
                   THEN /\ passes' = [passes EXCEPT ![k] = IdlePass]
                        /\ notes' = LoadNotes(notesStore')
                        /\ notification' = "Synced with server"
                        /\ UNCHANGED sent
                   ELSE /\ passes' = [passes EXCEPT
                                        ![k].i = @ + 1,
                                        ![k].oks = IF out = "ok" THEN @ + 1 ELSE @]
                        /\ sent' = sent \cup {p.queue[p.i + 1].id}
                        /\ UNCHANGED <<notes, notification>>
    /\ UNCHANGED <<nextQueueId, currentNoteId, isOnline, callbacks, clock, nextId,
                   savedOffline,
                   messages, editor, swVars>>

\* what the POST can settle to
SyncOutcomes == {"ok", "notok", "throw"}

SyncResponse(k) == \E out \in SyncOutcomes : SyncResponseWith(k, out)

NextApp ==
    \/ NewNote
    \/ LoadNoteForEditing
    \/ HandleSaveNote
    \/ SaveSuccess
    \/ HandleDeleteNote
    \/ DeleteSuccess
    \/ TimerTick
    \/ OnlineEvent
    \/ OfflineEvent
    \/ HandleManualSync
    \/ \E k \in PassIds : SyncResponse(k)

AppSpec == Init /\ [][NextApp]_vars


(***************************************************************************)
(* A reconciliation pass run to its end without interleaving, against an   *)
(* endpoint that answers the submissions of each note in one way.          *)
(***************************************************************************)
\* how the endpoint answers the POST of each note
Answers == [NoteIds -> SyncOutcomes]

\* syncWithServer(queue) from item i on: a rejection ends the loop
RECURSIVE SyncWithServer(_, _, _, _)
SyncWithServer(S, queue, i, answer) ==
    IF i > Len(queue) \/ answer[queue[i].note.id] = "throw"
    THEN S
    ELSE SyncWithServer(AckStep(S, queue[i], answer[queue[i].note.id] = "ok"),
                        queue, i + 1, answer)

\* autoSync() while online, and the pass it starts
ReconciliationPass(S, answer) ==
    IF S.queue = EmptyStore
    THEN S
    ELSE SyncWithServer(S, StoreGetAll(S.queue), 1, answer)


(***************************************************************************)
(* The page with a remote endpoint that accepts every submission, and the  *)
(* scheduling the browser guarantees: the onsuccess callback of a request  *)
(* runs, the interval timer fires, a POST that was accepted settles.       *)
(***************************************************************************)
NextAccepting ==
    \/ NewNote
    \/ LoadNoteForEditing
    \/ HandleSaveNote
    \/ SaveSuccess
    \/ HandleDeleteNote
    \/ DeleteSuccess
    \/ TimerTick
    \/ OnlineEvent
    \/ OfflineEvent
    \/ HandleManualSync
    \/ \E k \in PassIds : SyncResponseWith(k, "ok")

AppFairSpec ==
    /\ Init
    /\ [][NextAccepting]_vars
    /\ WF_vars(SaveSuccess)
    /\ WF_vars(DeleteSuccess)
    /\ WF_vars(TimerTick)
    /\ \A k \in PassIds : WF_vars(SyncResponseWith(k, "ok"))


(***************************************************************************)
(* Background sync: the 'sync' listener of the service worker posts a      *)
(* message to every client (src/unnamed/part_000 posts SYNC_TRIGGERED,     *)
(* src/service-worker.js posts SYNC_REQUEST); the page's 'message'         *)
(* listener handles it.  In MessageSpec nothing else triggers a            *)
(* reconciliation: no timer tick, no online event, no manual sync.         *)
(***************************************************************************)
SyncMessages == {"SYNC_TRIGGERED", "SYNC_REQUEST"}

\* the 'sync' listener: client.postMessage({ type: ... })
SyncEvent ==
    /\ Len(messages) < MaxMessages
    /\ \E type \in SyncMessages : messages' = Append(messages, type)
    /\ UNCHANGED <<notesStore, queueStore, nextQueueId, notes, currentNoteId, isOnline,
                   callbacks, passes, notification, clock, nextId, sent, acked,
                   savedOffline, editor, swVars>>

\* what the page's 'message' listener does with a message of this type:
\* `if (event.data.type === 'CACHE_UPDATE') { console.log(...) }`
OnMessage(type) == IF type = "CACHE_UPDATE" THEN "log" ELSE "ignore"

\* the page's 'message' listener runs for the oldest message
MessageDelivered ==
    /\ messages # <<>>
    /\ messages' = Tail(messages)
    /\ IF OnMessage(Head(messages)) = "autoSync"
       THEN AutoSync(isOnline)
       ELSE UNCHANGED <<passes, sent>>
    /\ UNCHANGED <<notesStore, queueStore, nextQueueId, notes, currentNoteId, isOnline,
                   callbacks, notification, clock, nextId, acked, savedOffline, editor, swVars>>

NextMessage ==
    \/ NewNote
    \/ LoadNoteForEditing
    \/ HandleSaveNote
    \/ SaveSuccess
    \/ HandleDeleteNote
    \/ DeleteSuccess
    \/ SyncEvent
    \/ MessageDelivered

MessageSpec ==
    /\ Init
    /\ [][NextMessage]_vars
    /\ WF_vars(SaveSuccess)
    /\ WF_vars(DeleteSuccess)
    /\ WF_vars(MessageDelivered)


(***************************************************************************)
(* Properties of the page.                                                 *)
(***************************************************************************)
\* the POST of the last item of pass k is acknowledged in this step, every
\* earlier item of the pass was acknowledged, and the pass reports success
PassSucceeds(k) ==
    LET p == passes[k] IN
      /\ p.pc = "await"
      /\ passes'[k].pc = "idle"
      /\ notification' = "Synced with server"
      /\ p.oks = Len(p.queue) - 1
      /\ p.queue[p.i].id \in DOMAIN queueStore
      /\ p.queue[p.i].id \notin DOMAIN queueStore'

\* the change of note `id` is still on its way to a later pass: it is in the
\* sync queue, or the save that will queue it has not completed
StillQueued(id) ==
    \/ \E q \in DOMAIN queueStore' : queueStore'[q].note.id = id
    \/ \E j \in 1..Len(callbacks') :
          callbacks'[j].kind = "save" /\ callbacks'[j].note.id = id

\* a save stores the note with synced = false
C10_SavePending ==
    clock' # clock =>
        \E id \in DOMAIN notesStore' :
            notesStore'[id].timestamp = clock /\ ~notesStore'[id].synced

\* a pass that succeeds leaves every note saved before it started Synced,
\* unless the change of the note is still queued for a later pass
C10_PassReturnsSynced ==
    \A k \in PassIds :
        PassSucceeds(k) =>
            \A id \in DOMAIN notesStore' :
                notesStore'[id].timestamp < passes[k].startedAt =>
                    notesStore'[id].synced \/ StillQueued(id)

\* a note becomes Synced only in the step in which a pass receives the
\* acknowledgment of a submission of that note
C10_OnlyByReconciliation ==
    \A id \in DOMAIN notesStore' :
        (notesStore'[id].synced /\ (id \in DOMAIN notesStore => ~notesStore[id].synced))
            => \E k \in PassIds :
                   /\ passes[k].pc = "await"
                   /\ passes[k].queue[passes[k].i].note.id = id
                   /\ id \in acked'

\* C10: every save that writes title or content leaves the stored note Pending
\* (synced = false); a successful reconciliation pass that follows the save
\* returns the note to Synced; and nothing but a successful reconciliation of
\* that note sets it to Synced.
C10_PendingUntilReconciled ==
    /\ [][C10_SavePending]_vars
    /\ [][C10_PassReturnsSynced]_vars
    /\ [][C10_OnlyByReconciliation]_vars

C10_SavePendingHolds == [][C10_SavePending]_vars
C10_OnlyByReconciliationHolds == [][C10_OnlyByReconciliation]_vars

\* connectivity is back, note `id` was last saved while offline, its save has
\* completed and the stored note is Pending
C11_BackOnline(id) ==
    /\ isOnline
    /\ id \in savedOffline
    /\ id \in DOMAIN notesStore
    /\ ~notesStore[id].synced
    /\ callbacks = <<>>

\* the note was submitted and is Synced; or the user deleted it, or
\* connectivity was lost again
C11_Synchronized(id) ==
    \/ id \in acked /\ id \in DOMAIN notesStore /\ notesStore[id].synced
    \/ id \notin DOMAIN notesStore
    \/ ~isOnline

\* C11: a note saved while offline is synchronized once connectivity is
\* restored: with an endpoint that accepts every submission, from the moment
\* the app is online again the note is eventually submitted and Synced.
C11_OfflineSaveSynchronized ==
    \A id \in NoteIds : C11_BackOnline(id) ~> C11_Synchronized(id)

\* syncWithServer(queue) is called in this step and becomes pass k
PassStarts(k) == passes[k].pc = "idle" /\ passes'[k].pc = "await"

\* the number of items of `queue` that submit note `id`
Submissions(queue, id) == Cardinality({j \in 1..Len(queue) : queue[j].note.id = id})

\* the notes of the store that are Pending
PendingIds == {id \in DOMAIN notesStore : ~notesStore[id].synced}

\* a pass that starts when every save has completed submits every note that
\* is Pending at that moment
C12_AtLeastOnce ==
    \A k \in PassIds :
        (PassStarts(k) /\ callbacks = <<>>) =>
            \A id \in PendingIds : Submissions(passes'[k].queue, id) >= 1

\* a pass submits no note more than once
C12_AtMostOnce ==
    \A k \in PassIds :
        (PassStarts(k) /\ callbacks = <<>>) =>
            \A id \in PendingIds : Submissions(passes'[k].queue, id) <= 1

\* C12: every note that is Pending in the store when a reconciliation pass
\* starts is submitted by that pass exactly once, whatever saves preceded it.
C12_DiscoveredExactlyOnce ==
    /\ [][C12_AtLeastOnce]_vars
    /\ [][C12_AtMostOnce]_vars

C12_AtLeastOnceAlways == [][C12_AtLeastOnce]_vars
C12_AtMostOnceAlways == [][C12_AtMostOnce]_vars

\* C13: idempotence: a reconciliation pass run twice in succession with no
\* edit in between leaves the notes store and the sync queue after the second
\* pass as they were after the first.
C13_Idempotent ==
    \A answer \in Answers :
        LET first == ReconciliationPass(Stored(notesStore, queueStore), answer) IN
          ReconciliationPass(first, answer) = first

\* a pass has completed, changes are queued again, and an accepting endpoint
\* makes the next pass change both stores
C13_Witness ==
    /\ notification = "Synced with server"
    /\ queueStore # EmptyStore
    /\ \E id \in DOMAIN notesStore : notesStore[id].synced
    /\ LET S == Stored(notesStore, queueStore)
           first == ReconciliationPass(S, [id \in NoteIds |-> "ok"]) IN
         first.notes # S.notes /\ first.queue = EmptyStore

\* saveNote(title, content) was called in this step
Saves == clock' # clock

\* the request of the save of this step, and the note reloaded after it
SaveRequest == callbacks'[Len(callbacks')]
Reloaded == Reload(notesStore', SaveRequest.note.id)

\* the note reloaded after a save has the title, content and id that were saved
C14_SameAsSaved ==
    Saves => /\ Reloaded.id = SaveRequest.note.id
             /\ Reloaded.title = SaveRequest.args[1]
             /\ Reloaded.content = SaveRequest.args[2]

\* C14 as stated: a note saved and reloaded by id has the title, content and
\* id that were given to save, an empty title with a content included.
C14_RoundTrip == [][C14_SameAsSaved]_vars

\* the same with the title 'Untitled' standing for an empty title
C14_SameOrUntitled ==
    Saves => /\ Reloaded.id = SaveRequest.note.id
             /\ Reloaded.id = IF currentNoteId # Null THEN currentNoteId ELSE nextId
             /\ Reloaded.title = IF SaveRequest.args[1] = "" THEN "Untitled"
                                  ELSE SaveRequest.args[1]
             /\ Reloaded.content = SaveRequest.args[2]

\* C14: a note saved and reloaded by id has the content and id that were
\* saved, and the title that was saved, or 'Untitled' if that title was empty.
C14_RoundTripUntitled == [][C14_SameOrUntitled]_vars

\* a note saved with an empty title and a content is in the store and in the
\* list that was loaded from it
C14_Witness ==
    \E j \in 1..Len(notes) :
        /\ notes[j].title = "Untitled"
        /\ notes[j].content = "x"
        /\ notes[j].id \in DOMAIN notesStore
        /\ Reload(notesStore, notes[j].id) = notes[j]

\* no syncWithServer() call is in flight
NoPassInFlight == \A k \in PassIds : passes[k].pc = "idle"

\* a step taken with the connectivity flag offline starts no pass; if no pass
\* was in flight it submits nothing, acknowledges nothing, leaves the sync
\* queue as it is and every Pending note Pending
C15_OfflineStep ==
    (~isOnline /\ ~isOnline') =>
        /\ \A k \in PassIds : ~PassStarts(k)
        /\ NoPassInFlight =>
              /\ sent' = sent
              /\ acked' = acked
              /\ queueStore' = queueStore
              /\ \A id \in PendingIds :
                    id \in DOMAIN notesStore' => ~notesStore'[id].synced

\* handleManualSync() while offline changes nothing but the notification
C15_ManualSyncOffline ==
    (~isOnline /\ notification' = "You are offline" /\ notification' # notification) =>
        UNCHANGED <<notesStore, queueStore, passes, sent, acked, isOnline>>

\* C15: a reconciliation triggered while the connectivity flag is offline
\* makes no network call, and changes neither the notes store nor the sync queue.
C15_OfflineReconcileIsNoOp ==
    /\ [][C15_OfflineStep]_vars
    /\ [][C15_ManualSyncOffline]_vars

\* offline with a queued change of a Pending note, after a manual sync was
\* refused; nothing was ever submitted
C15_Witness ==
    /\ ~isOnline
    /\ notification = "You are offline"
    /\ NoPassInFlight
    /\ sent = {}
    /\ \E q \in DOMAIN queueStore :
          /\ queueStore[q].note.id \in DOMAIN notesStore
          /\ ~notesStore[queueStore[q].note.id].synced

\* the POST of item i of pass k is rejected at the transport level in this
\* step: the pass ends before its last item, or at it without a success
PassAborts(k) ==
    /\ passes[k].pc = "await"
    /\ passes'[k].pc = "idle"
    /\ \/ passes[k].i < Len(passes[k].queue)
       \/ notification' = "Failed to sync with server"

\* the items of pass k that were not acknowledged when it aborts: item i and
\* the items after it that are still in the sync queue
Unacknowledged(k) ==
    {passes[k].queue[j] : j \in {m \in passes[k].i..Len(passes[k].queue) :
                                    passes[k].queue[m].id \in DOMAIN queueStore}}

\* the unacknowledged items stay in the sync queue
C16_StayQueued ==
    \A k \in PassIds :
        PassAborts(k) => \A item \in Unacknowledged(k) : item.id \in DOMAIN queueStore'

\* the notes of the unacknowledged items are Pending
C16_StayPending ==
    \A k \in PassIds :
        PassAborts(k) =>
            \A item \in Unacknowledged(k) :
                item.note.id \in DOMAIN notesStore' => ~notesStore'[item.note.id].synced

\* nothing that was acknowledged is rolled back
C16_NoRollback ==
    \A k \in PassIds : PassAborts(k) => notesStore' = notesStore

\* the pass reports the failure
C16_ReportsFailure ==
    \A k \in PassIds : PassAborts(k) => notification' = "Failed to sync with server"

\* C16: when a submission fails at the transport level in the middle of a
\* pass, the items of the pass not yet acknowledged remain Pending and queued,
\* the items already acknowledged stay Synced, and the pass reports a failure.
C16_FailureMidPass ==
    /\ [][C16_StayQueued]_vars
    /\ [][C16_StayPending]_vars
    /\ [][C16_NoRollback]_vars
    /\ [][C16_ReportsFailure]_vars

C16_OtherClauses ==
    /\ [][C16_StayQueued]_vars
    /\ [][C16_NoRollback]_vars
    /\ [][C16_ReportsFailure]_vars

\* the stored notes that are Synced
SyncedIds == {id \in DOMAIN notesStore : notesStore[id].synced}

\* a stored note is Synced only if the endpoint acknowledged a submission of it
C17_SyncedWasAcknowledged == SyncedIds \subseteq acked

\* a note becomes Synced only in a step in which a pass receives the
\* acknowledgment of an item of that note; the notes of the other ids are
\* left as they are in that step
C17_OwnAcknowledgment ==
    \A id \in DOMAIN notesStore' :
        (notesStore'[id].synced /\ id \notin SyncedIds) =>
            \E k \in PassIds :
                /\ passes[k].pc = "await"
                /\ passes[k].queue[passes[k].i].note.id = id
                /\ acked' = acked \cup {id}
                /\ sent \subseteq sent'
                /\ passes[k].queue[passes[k].i].id \in sent
                /\ \A other \in DOMAIN notesStore \ {id} :
                      other \in DOMAIN notesStore' /\ notesStore'[other] = notesStore[other]

\* C17: a stored note is Synced only if the endpoint acknowledged a submission
\* of that note; it becomes Synced when its own acknowledgment arrives, not
\* before, and the acknowledgment of one item marks no other note.
C17_SyncedOnlyWhenAcknowledged ==
    /\ []C17_SyncedWasAcknowledged
    /\ [][C17_OwnAcknowledgment]_vars

\* one note is Synced and acknowledged while another, submitted and not
\* acknowledged, is Pending
C17_Witness ==
    \E a, b \in DOMAIN notesStore :
        /\ notesStore[a].synced /\ a \in acked
        /\ ~notesStore[b].synced /\ b \notin acked
        /\ \E q \in sent : q \in DOMAIN queueStore /\ queueStore[q].note.id = b

\* pass k POSTs the queued change with key q in this step: as its first item
\* when it starts, or as its next item when a response arrived
Submits(k, q) ==
    /\ passes'[k].pc = "await"
    /\ passes'[k].queue[passes'[k].i].id = q
    /\ passes[k].pc = "idle" \/ passes[k].i # passes'[k].i

\* pass j is in flight and has POSTed the queued change with key q
HasSubmitted(j, q) ==
    /\ passes[j].pc = "await"
    /\ \E m \in 1..passes[j].i : passes[j].queue[m].id = q

\* C18: passes that overlap never submit the same queued change twice: a pass
\* POSTs no change that a pass still in flight has already POSTed.
C18_NoDoubleSubmission ==
    [][\A k \in PassIds : \A q \in QueueIds :
          Submits(k, q) => \A j \in PassIds \ {k} : ~HasSubmitted(j, q)]_vars

\* the response for the item that pass k awaits arrives in this step
ResponseArrives(k) ==
    /\ passes[k].pc = "await"
    /\ passes'[k] # passes[k]

\* the item that pass k awaits was acknowledged to an overlapping pass, which
\* removed it from the sync queue, and its note is in the store
AppliedBefore(k) ==
    LET item == passes[k].queue[passes[k].i] IN
      /\ item.id \notin DOMAIN queueStore
      /\ item.note.id \in acked
      /\ item.note.id \in DOMAIN notesStore

\* C19: when two passes overlap, applying the acknowledgment of an item a
\* second time changes neither the notes store nor the sync queue, also when
\* the note was edited and saved between the two applications.
C19_SecondAckIsNoOp ==
    [][\A k \in PassIds :
          (ResponseArrives(k) /\ AppliedBefore(k)) =>
              notesStore' = notesStore /\ queueStore' = queueStore]_vars

\* the same, for a note that was not saved again since the first application
C19_SecondAckUnedited ==
    [][\A k \in PassIds :
          ( /\ ResponseArrives(k)
            /\ AppliedBefore(k)
            /\ LET item == passes[k].queue[passes[k].i] IN
                 notesStore[item.note.id] = [item.note EXCEPT !.synced = TRUE] ) =>
              notesStore' = notesStore /\ queueStore' = queueStore]_vars

\* a SYNC_TRIGGERED message is about to be handled by the page, which is
\* online, has a queued change and no pass in flight
C20_MessagePending ==
    /\ messages # <<>>
    /\ Head(messages) = "SYNC_TRIGGERED"
    /\ isOnline
    /\ queueStore # EmptyStore
    /\ NoPassInFlight

\* C20: a SYNC_TRIGGERED message posted by the service worker makes the page
\* run the reconciliation routine: with a queued change and the page online, a
\* pass is eventually started.
C20_MessageTriggersPass ==
    C20_MessagePending ~> (\E k \in PassIds : passes[k].pc = "await")

\* the item whose POST pass k awaits
Awaited(k) == passes[k].queue[passes[k].i]

\* the items of pass k that were answered before the awaited one and were not
\* acknowledged: they are still in the sync queue
AnsweredNotOk(k) ==
    {passes[k].queue[j] : j \in {m \in 1..(passes[k].i - 1) :
                                    passes[k].queue[m].id \in DOMAIN queueStore}}

\* the POST that pass k awaits settles to `out` in this step
Answered_With(k, out) == ResponseArrives(k) /\ SyncResponseWith(k, out)

\* a submission answered with a non-success status leaves the queue record
\* and the stored note of its item as they are
C21_NotOkStays(k) ==
    /\ Awaited(k).id \in DOMAIN queueStore => Awaited(k).id \in DOMAIN queueStore'
    /\ notesStore' = notesStore
    /\ \A id \in PendingIds : id \in DOMAIN notesStore' /\ ~notesStore'[id].synced

\* after an answer that is not a rejection the next item of the pass is POSTed
C21_LaterSubmitted(k) ==
    IF passes[k].i < Len(passes[k].queue)
    THEN /\ passes'[k].pc = "await"
         /\ passes'[k].i = passes[k].i + 1
         /\ passes'[k].queue = passes[k].queue
         /\ Awaited(k).id \in sent
         /\ passes[k].queue[passes[k].i + 1].id \in sent'
    ELSE passes'[k].pc = "idle"

\* a submission answered with success stores the note of its item as Synced
\* and removes the queue record of the item
C21_OkApplied(k) ==
    /\ Awaited(k).note.id \in DOMAIN notesStore'
    /\ notesStore'[Awaited(k).note.id].synced
    /\ Awaited(k).id \notin DOMAIN queueStore'
    /\ DOMAIN queueStore' = DOMAIN queueStore \ {Awaited(k).id}

\* the answer to a later item of a pass leaves the earlier items that were
\* not acknowledged in the sync queue, and the notes of those items as they
\* are unless the later item is of the same note
C21_EarlierUntouched(k) ==
    \A item \in AnsweredNotOk(k) :
        /\ item.id \in DOMAIN queueStore'
        /\ queueStore'[item.id] = queueStore[item.id]
        /\ (item.note.id # Awaited(k).note.id /\ item.note.id \in DOMAIN notesStore)
           => /\ item.note.id \in DOMAIN notesStore'
              /\ notesStore'[item.note.id] = notesStore[item.note.id]

ReturnedFromNetwork(s) ==
    /\ slots[s].strategy = "cacheFirst"
    /\ Answered(s)
    /\ slots[s].cached = Undefined
    /\ slots[s].netCalls = 1
    /\ Ok(slots[s].response)
    /\ slots[s].result = slots[s].response

\* the copy of the response of slot s is in the runtime cache
CopyStored(s) ==
    /\ slots[s].put = NoPut
    /\ Truthy(CacheMatch(caches, RUNTIME_CACHE(active), slots[s].req.url))

\* the 'fetch' event of a request is dispatched to slot t in this step
Issued(t) == slots[t].pc = "idle" /\ slots'[t].pc # "idle"

\* the copy is stored before the response is returned
C22_StoredBeforeReturned ==
    \A s \in Slots : ReturnedFromNetwork(s) => CopyStored(s)

\* a request identical to one that was answered from the network is issued
\* when the copy of that answer is in the runtime cache
C22_LaterRequestFindsCopy ==
    \A s, t \in Slots :
        (ReturnedFromNetwork(s) /\ Issued(t) /\ slots'[t].req = slots[s].req)
        => CopyStored(s)

\* C22: on a Cache-First miss with a successful network response the copy is
\* stored in the runtime cache before the response is returned, so that an
\* identical request issued after the response was returned finds the copy
\* (it is a cache hit and makes no network call).
C22_CopyBeforeReturn == [][C22_LaterRequestFindsCopy]_vars

\* deleteNote(id) has completed: the id was given to a note, the note is not
\* in the notes store and no delete request of it awaits its callback
Deleted(id) ==
    /\ id < nextId
    /\ id \notin DOMAIN notesStore
    /\ \A j \in 1..Len(callbacks) :
          ~(callbacks[j].kind = "delete" /\ callbacks[j].note.id = id)

\* C23: after deleteNote(id) has completed the note is absent from the notes
\* store and stays absent whatever reconciliation passes do: a deleted note
\* is in the store again only by a step in which the user saves it.
C23_DeletedStaysAbsent ==
    [][\A id \in NoteIds :
          (Deleted(id) /\ id \in DOMAIN notesStore') =>
              Saves /\ SaveRequest.note.id = id]_vars

\* the title and the content of a stored note
Text(note) == <<note.title, note.content>>

\* C24: a reconciliation pass changes only the syncState of stored notes:
\* applying an acknowledgment leaves the title and the content of every
\* stored note as the user's most recent save of that note stored them, also
\* when the note was saved again after the change was queued or while the
\* pass was awaiting the network.
C24_OnlySyncStateChanges ==
    [][\A k \in PassIds :
          ResponseArrives(k) =>
              \A id \in DOMAIN notesStore \cap DOMAIN notesStore' :
                  Text(notesStore'[id]) = Text(notesStore[id])]_vars

\* the same, for an acknowledgment whose note was not saved again since the
\* change was queued
C24_UneditedKeepsText ==
    [][\A k \in PassIds :
          ResponseArrives(k) =>
              \A id \in DOMAIN notesStore \cap DOMAIN notesStore' :
                  (id # Awaited(k).note.id
                     \/ notesStore[id].timestamp = Awaited(k).note.timestamp)
                  => Text(notesStore'[id]) = Text(notesStore[id])]_vars

\* C25: creating a note never overwrites another note: a save made in the
\* editor that newNote() opened stores under an id that no stored note has,
\* also when the completion callback of an earlier save, still in flight when
\* newNote() ran, has run in between.
C25_NewNoteGetsNewId ==
    [][(editor = "new" /\ Saves) => SaveRequest.note.id \notin DOMAIN notesStore]_vars

\* the same, when no completion callback has run since newNote()
C25_NewIdWithoutCallback ==
    [][(editor = "new" /\ Saves /\ currentNoteId = Null) =>
          SaveRequest.note.id \notin DOMAIN notesStore]_vars

\* pass k ends in this step with the success report
ReportsSuccess(k) ==
    /\ passes[k].pc = "await"
    /\ passes'[k].pc = "idle"
    /\ notification' = "Synced with server"

\* the items pass k was given
Items(k) == {passes[k].queue[j] : j \in 1..Len(passes[k].queue)}

\* every item the pass submitted is acknowledged: its queue record is removed
\* and the endpoint acknowledged its note
C26_AllAcknowledged(k) ==
    \A item \in Items(k) :
        /\ item.id \notin DOMAIN queueStore'
        /\ item.note.id \in acked'

\* no note of an item of the pass is left Pending
C26_NonePending(k) ==
    \A item \in Items(k) :
        item.note.id \in DOMAIN notesStore' => notesStore'[item.note.id].synced

\* C26: a pass reports 'Synced with server' only if every item it submitted
\* was acknowledged with success and is now Synced; a pass that leaves an item
\* of its own Pending does not report success.
C26_SuccessOnlyIfAllSynced ==
    [][\A k \in PassIds :
          ReportsSuccess(k) => C26_AllAcknowledged(k) /\ C26_NonePending(k)]_vars

\* the same, for the passes in which every POST was answered with a success
\* and no note of the pass was saved again while the pass was running
C26_AllOkReportsSynced ==
    [][\A k \in PassIds :
          ( /\ ReportsSuccess(k)
            /\ passes[k].oks = Len(passes[k].queue) - 1
            /\ Answered_With(k, "ok")
            /\ passes[k].startedAt = clock
            /\ callbacks = <<>> ) =>
              C26_AllAcknowledged(k) /\ C26_NonePending(k)]_vars

====
